---- MODULE Spec2Model ----
(***************************************************************************)
(* Model of the BRC-78 message encryption envelope of py-sdk               *)
(* (bsv/encrypted_message.py) together with the codecs its test-suite      *)
(* exercises (CompactSize varint, ECDSA DER).                              *)
(*                                                                         *)
(* Bytes are integers 0..255 and byte strings are sequences of them, with  *)
(* the real field widths (4, 33, 33, 32, 32, 16).  The collaborators that  *)
(* are not part of the repository's source (the curve, HMAC, AES-GCM) are  *)
(* replaced by small computable stand-ins with the same interface: the     *)
(* curve group is the cyclic group Z_n (a point is its multiple of G),     *)
(* HMAC is a keyed weighted sum modulo a prime and the AEAD is a stream     *)
(* cipher with a weighted-sum MAC over a prime field, which like GHASH     *)
(* detects every change of one byte of IV or ciphertext.                   *)
(***************************************************************************)
EXTENDS Integers, Sequences, FiniteSets, TLC

\* ------------------------------------------------------------------ bytes

Min(a, b) == IF a < b THEN a ELSE b

Max(a, b) == IF a > b THEN a ELSE b

\* Python's s[lo:hi] for 0 <= lo and 0 <= hi: indices are clamped, never an error.
PySlice(s, lo, hi) == SubSeq(s, Min(lo, Len(s)) + 1, Min(hi, Len(s)))

\* Python's s[lo:] for 0 <= lo.
PyFrom(s, lo) == SubSeq(s, Min(lo, Len(s)) + 1, Len(s))

\* Python's s[-k:] for k > 0: the last k items, or all of s when it is shorter.
PyLast(s, k) == SubSeq(s, Max(Len(s) - k, 0) + 1, Len(s))

\* Python's s[lo:-k] for 0 <= lo and k > 0.
PySliceToNeg(s, lo, k) == SubSeq(s, Min(lo, Len(s)) + 1, Max(Len(s) - k, 0))

Zeros(k) == [i \in 1..k |-> 0]

\* The weight of position i under the hash key k: never 0 modulo the prime p.
Weight(i, k, p) == 1 + ((i * k) % (p - 1))

\* The sum of s[i] * Weight(i, k, p) over lo..hi modulo p, eight terms at a
\* time and by halves above that.
RECURSIVE WeightedSumRange(_, _, _, _, _)
WeightedSumRange(s, lo, hi, k, p) ==
    IF hi - lo < 8
    THEN LET t(i) == IF i <= hi THEN s[i] * Weight(i, k, p) ELSE 0
         IN  (t(lo) + t(lo + 1) + t(lo + 2) + t(lo + 3)
                  + t(lo + 4) + t(lo + 5) + t(lo + 6) + t(lo + 7)) % p
    ELSE LET mid == (lo + hi) \div 2
         IN  (WeightedSumRange(s, lo, mid, k, p) + WeightedSumRange(s, mid + 1, hi, k, p)) % p

\* A keyed hash of the byte string s into 0..p-1.
WeightedSum(s, k, p) == (Len(s) + WeightedSumRange(s, 1, Len(s), k, p)) % p

\* ------------------------------------------------------------ exceptions

\* A raised exception: its class, its text, and the exception it was raised from.
Exc(kind, text, cause_kind, cause_text) ==
    [kind |-> kind, text |-> text, cause_kind |-> cause_kind, cause_text |-> cause_text]

NoExc == Exc("", "", "", "")

\* A call's outcome: a returned value, or a raised exception.
Return(v) == [ok |-> TRUE, value |-> v, exc |-> NoExc]

Raise(kind, text) == [ok |-> FALSE, value |-> <<>>, exc |-> Exc(kind, text, "", "")]

\* ----------------------------------------------------------------- curve

\* Half of the group order less one half: the number of distinct x-coordinates.
HalfOrder == 125

\* The order n of the curve group (curve.n), here the prime 251.
curve_n == 2 * HalfOrder + 1

\* PrivateKey.public_key(): the point scalar * G (G is the generator 1 of Z_n).
public_key(priv) == priv % curve_n

\* Point negation shares the x-coordinate: x(P) = x(-P).
point_x(P) == Min(P, curve_n - P)

\* PublicKey.serialize(): compressed, 1-byte parity prefix + 32-byte big-endian x.
serialize(P) ==
    <<(IF P = point_x(P) THEN 2 ELSE 3)>> \o Zeros(31) \o <<point_x(P)>>

\* PublicKey(bytes): parses a compressed point; raises on anything else.
PublicKey(b) ==
    IF /\ Len(b) = 33
       /\ b[1] \in {2, 3}
       /\ \A i \in 2..32 : b[i] = 0
       /\ b[33] \in 1..HalfOrder
    THEN Return(IF b[1] = 2 THEN b[33] ELSE curve_n - b[33])
    ELSE Raise("ValueError", "invalid public key")

\* ECDH: the point pub * priv, serialized compressed; raises on the identity.
derive_shared_secret(priv, pub) ==
    IF pub % curve_n = 0 \/ (priv * pub) % curve_n = 0
    THEN Raise("ValueError", "invalid point")
    ELSE Return(serialize((priv * pub) % curve_n))

HashPrime == 32749

HashBase == 257

\* hmac_sha256(key, msg) as an integer: a keyed hash of key and message.
hmac_sha256(key, msg) ==
    (WeightedSum(key, HashBase, HashPrime) * 31
         + WeightedSum(msg, HashBase + 2, HashPrime)) % HashPrime

\* PrivateKey.derive_child(public_key, invoice_number): scalar + offset mod n.
PrivateKey_derive_child(priv, pub, invoice_number) ==
    LET shared == derive_shared_secret(priv, pub) IN
    IF ~shared.ok THEN shared
    ELSE LET offset == hmac_sha256(shared.value, invoice_number) % curve_n
             child  == (priv + offset) % curve_n
         IN  IF child = 0 THEN Raise("DerivationError", "zero child key")
             ELSE Return(child)

\* PublicKey.derive_child(private_key, invoice_number): point + offset * G.
PublicKey_derive_child(pub, priv, invoice_number) ==
    LET shared == derive_shared_secret(priv, pub) IN
    IF ~shared.ok THEN shared
    ELSE LET offset == hmac_sha256(shared.value, invoice_number) % curve_n
         IN  Return((pub + offset) % curve_n)

\* ---------------------------------------------------------------- base64

\* The ASCII code of the base64 alphabet's i-th character.
B64Char(i) ==
    IF i < 26 THEN 65 + i
    ELSE IF i < 52 THEN 97 + (i - 26)
    ELSE IF i < 62 THEN 48 + (i - 52)
    ELSE IF i = 62 THEN 43 ELSE 47

\* base64.b64encode(b).decode('ascii'), as ASCII codes: 3 bytes become 4
\* characters, a short last group is padded with '='.
b64encode(b) ==
    LET at(i) == IF i <= Len(b) THEN b[i] ELSE 0
        group(g) == at(3 * g + 1) * 65536 + at(3 * g + 2) * 256 + at(3 * g + 3)
        char(g, k) ==
            IF 3 * g + k > Len(b) + 1 THEN 61
            ELSE B64Char(CASE k = 1 -> group(g) \div 262144
                           [] k = 2 -> (group(g) \div 4096) % 64
                           [] k = 3 -> (group(g) \div 64) % 64
                           [] OTHER -> group(g) % 64)
    IN  [i \in 1..(4 * ((Len(b) + 2) \div 3)) |-> char((i - 1) \div 4, ((i - 1) % 4) + 1)]

\* f'2-message encryption-{key_id_base64}', as ASCII codes.
invoice_number_of(key_id) ==
    <<50, 45, 109, 101, 115, 115, 97, 103, 101, 32,
      101, 110, 99, 114, 121, 112, 116, 105, 111, 110, 45>> \o b64encode(key_id)

\* --------------------------------------------------------------- AES-GCM

MacPrime == 257

\* The key as the cipher sees it: a number modulo MacPrime.
key_int(key) == WeightedSum(key, 3, MacPrime)

\* The hash subkey H = E_K(0): never 0 modulo MacPrime.
gcm_H(key) == 2 + (key_int(key) % 250)

\* The i-th keystream byte of the counter mode.
gcm_keystream(key, iv, i) ==
    (key_int(key) * 5 + WeightedSum(iv, 3, MacPrime) + 7 * i) % 256

\* The 16-byte tag: a weighted-sum MAC T of IV and ciphertext under the hash
\* subkey, masked with the key K.  The odd bytes carry T and the even bytes
\* K and T, so the tag tells two values of T, and two keys, apart.
gcm_tag(key, iv, ct) ==
    LET K == key_int(key)
        T == (WeightedSum(iv \o ct \o <<Len(iv) % 256, Len(ct) % 256>>,
                          gcm_H(key), MacPrime) + K) % MacPrime
    IN  [j \in 1..16 |->
            IF j % 2 = 1 THEN (T * j + (T \div 256) * 101 + 13 * j) % 256
            ELSE (K * (j + 1) + (K \div 256) * 59 + T + 7 * j) % 256]

\* AES.new(key, AES.MODE_GCM, iv): the nonce must not be empty.
gcm_new_ok(key, iv) == Len(iv) > 0

\* cipher.encrypt_and_digest(message): <<ciphertext, tag>>.
encrypt_and_digest(key, iv, message) ==
    LET ct == [i \in 1..Len(message) |-> (message[i] + gcm_keystream(key, iv, i)) % 256]
    IN  <<ct, gcm_tag(key, iv, ct)>>

\* cipher.decrypt_and_verify(encrypted, auth_tag): the plaintext, or ValueError.
decrypt_and_verify(key, iv, encrypted, auth_tag) ==
    IF auth_tag # gcm_tag(key, iv, encrypted)
    THEN Raise("ValueError", "MAC check failed")
    ELSE Return([i \in 1..Len(encrypted) |->
                    (encrypted[i] + 256 - gcm_keystream(key, iv, i)) % 256])

\* ---------------------------------------------------- encrypted_message.py

\* aes_gcm_encrypt that puts the tag before the ciphertext.
aes_gcm_encrypt_tag_first(key, message, iv) ==
    IF ~gcm_new_ok(key, iv) THEN Raise("ValueError", "Nonce cannot be empty")
    ELSE LET r == encrypt_and_digest(key, iv, message)
         IN  Return(iv \o r[2] \o r[1])

\* aes_gcm_encrypt(key, message); iv is the draw of randbytes(32).
aes_gcm_encrypt(key, message, iv) ==
    IF ~gcm_new_ok(key, iv) THEN Raise("ValueError", "Nonce cannot be empty")
    ELSE LET r == encrypt_and_digest(key, iv, message)
         IN  Return(iv \o r[1] \o r[2])

\* aes_gcm_decrypt that calls decrypt where it should call decrypt_and_verify.
aes_gcm_decrypt_no_verify(key, message) ==
    LET iv        == PySlice(message, 0, 32)
        encrypted == PySliceToNeg(message, 32, 16)
    IN  IF ~gcm_new_ok(key, iv) THEN Raise("ValueError", "Nonce cannot be empty")
        ELSE Return([i \in 1..Len(encrypted) |->
                        (encrypted[i] + 256 - gcm_keystream(key, iv, i)) % 256])

\* aes_gcm_decrypt(key, message).
aes_gcm_decrypt(key, message) ==
    LET iv        == PySlice(message, 0, 32)
        encrypted == PySliceToNeg(message, 32, 16)
        auth_tag  == PyLast(message, 16)
    IN  IF ~gcm_new_ok(key, iv) THEN Raise("ValueError", "Nonce cannot be empty")
        ELSE decrypt_and_verify(key, iv, encrypted, auth_tag)

VERSION == <<66, 66, 16, 51>>

\* The symmetric key as encrypt derives it: shared_secret[1:] of the ECDH of
\* the two child keys.  sender is a private scalar, recipient a point.
symmetric_key_sender(sender, recipient, invoice_number) ==
    LET sender_child    == PrivateKey_derive_child(sender, recipient, invoice_number)
        recipient_child == PublicKey_derive_child(recipient, sender, invoice_number)
    IN  IF ~sender_child.ok THEN sender_child
        ELSE IF ~recipient_child.ok THEN recipient_child
        ELSE LET shared_secret ==
                     derive_shared_secret(sender_child.value, recipient_child.value)
             IN  IF ~shared_secret.ok THEN shared_secret
                 ELSE Return(PyFrom(shared_secret.value, 1))

\* The recipient's derivation without the child keys: the ECDH of the two
\* long-term keys.
symmetric_key_recipient_no_child(sender, recipient, invoice_number) ==
    LET shared_secret == derive_shared_secret(recipient, sender)
    IN  IF ~shared_secret.ok THEN shared_secret
        ELSE Return(PyFrom(shared_secret.value, 1))

\* The symmetric key as decrypt derives it.  sender is a point, recipient a
\* private scalar.
symmetric_key_recipient(sender, recipient, invoice_number) ==
    LET sender_child    == PublicKey_derive_child(sender, recipient, invoice_number)
        recipient_child == PrivateKey_derive_child(recipient, sender, invoice_number)
    IN  IF ~sender_child.ok THEN sender_child
        ELSE IF ~recipient_child.ok THEN recipient_child
        ELSE LET shared_secret ==
                     derive_shared_secret(recipient_child.value, sender_child.value)
             IN  IF ~shared_secret.ok THEN shared_secret
                 ELSE Return(PyFrom(shared_secret.value, 1))

\* encrypt(message, sender, recipient); key_id and iv are the two draws of
\* randbytes(32).  sender is a private scalar, recipient a point.
encrypt(message, sender, recipient, key_id, iv) ==
    LET symmetric_key ==
            symmetric_key_sender(sender, recipient, invoice_number_of(key_id))
    IN  IF ~symmetric_key.ok THEN symmetric_key
        ELSE LET encrypted == aes_gcm_encrypt(symmetric_key.value, message, iv)
             IN  IF ~encrypted.ok THEN encrypted
                 ELSE Return(VERSION \o serialize(public_key(sender))
                                \o serialize(recipient) \o key_id \o encrypted.value)

\* An except clause that lets the exception through as it is.
reraise_unwrapped(r) == r

\* The except clause of decrypt: every exception becomes
\* ValueError('failed to decrypt message: ...') raised from the original.
reraise(r) ==
    IF r.ok THEN r
    ELSE [ok |-> FALSE, value |-> <<>>,
          exc |-> Exc("ValueError", "failed to decrypt message", r.exc.kind, r.exc.text)]

\* The try block with the recipient compared before the version.
decrypt_try_recipient_first(message, recipient) ==
    LET version          == PySlice(message, 0, 4)
        sender_pubkey    == PySlice(message, 4, 37)
        recipient_pubkey == PySlice(message, 37, 70)
        key_id           == PySlice(message, 70, 102)
        encrypted        == PyFrom(message, 102)
    IN  IF recipient_pubkey # serialize(public_key(recipient))
        THEN Raise("ValueError", "recipient public key mismatch")
        ELSE IF version # VERSION
        THEN Raise("ValueError", "message version mismatch")
        ELSE LET sender == PublicKey(sender_pubkey) IN
             IF ~sender.ok THEN sender
             ELSE LET symmetric_key ==
                          symmetric_key_recipient(sender.value, recipient,
                                                  invoice_number_of(key_id))
                  IN  IF ~symmetric_key.ok THEN symmetric_key
                      ELSE aes_gcm_decrypt(symmetric_key.value, encrypted)

\* The try block without the comparison of the recipient field.
decrypt_try_no_recipient_check(message, recipient) ==
    LET version          == PySlice(message, 0, 4)
        sender_pubkey    == PySlice(message, 4, 37)
        recipient_pubkey == PySlice(message, 37, 70)
        key_id           == PySlice(message, 70, 102)
        encrypted        == PyFrom(message, 102)
    IN  IF version # VERSION
        THEN Raise("ValueError", "message version mismatch")
        ELSE LET sender == PublicKey(sender_pubkey) IN
             IF ~sender.ok THEN sender
             ELSE LET symmetric_key ==
                          symmetric_key_recipient(sender.value, recipient,
                                                  invoice_number_of(key_id))
                  IN  IF ~symmetric_key.ok THEN symmetric_key
                      ELSE aes_gcm_decrypt(symmetric_key.value, encrypted)

\* The try block without the comparison of the version field.
decrypt_try_no_version_check(message, recipient) ==
    LET version          == PySlice(message, 0, 4)
        sender_pubkey    == PySlice(message, 4, 37)
        recipient_pubkey == PySlice(message, 37, 70)
        key_id           == PySlice(message, 70, 102)
        encrypted        == PyFrom(message, 102)
    IN  IF recipient_pubkey # serialize(public_key(recipient))
        THEN Raise("ValueError", "recipient public key mismatch")
        ELSE LET sender == PublicKey(sender_pubkey) IN
             IF ~sender.ok THEN sender
             ELSE LET symmetric_key ==
                          symmetric_key_recipient(sender.value, recipient,
                                                  invoice_number_of(key_id))
                  IN  IF ~symmetric_key.ok THEN symmetric_key
                      ELSE aes_gcm_decrypt(symmetric_key.value, encrypted)

\* The try block of decrypt(message, recipient); recipient is a private scalar.
decrypt_try(message, recipient) ==
    LET version          == PySlice(message, 0, 4)
        sender_pubkey    == PySlice(message, 4, 37)
        recipient_pubkey == PySlice(message, 37, 70)
        key_id           == PySlice(message, 70, 102)
        encrypted        == PyFrom(message, 102)
    IN  IF version # VERSION
        THEN Raise("ValueError", "message version mismatch")
        ELSE IF recipient_pubkey # serialize(public_key(recipient))
        THEN Raise("ValueError", "recipient public key mismatch")
        ELSE LET sender == PublicKey(sender_pubkey) IN
             IF ~sender.ok THEN sender
             ELSE LET symmetric_key ==
                          symmetric_key_recipient(sender.value, recipient,
                                                  invoice_number_of(key_id))
                  IN  IF ~symmetric_key.ok THEN symmetric_key
                      ELSE aes_gcm_decrypt(symmetric_key.value, encrypted)

\* decrypt(message, recipient).
decrypt(message, recipient) == reraise(decrypt_try(message, recipient))


\* ----------------------------------------------------------------- utils

\* An integer too wide for one machine word is kept as its sign and its
\* 16-bit limbs, least significant first, without leading zero limbs.
Big(neg, limbs) == [neg |-> neg, limbs |-> limbs]

RECURSIVE LimbsLess(_, _, _)
\* a < b for limb strings of the same length, compared from limb i downwards.
LimbsLess(a, b, i) ==
    IF i = 0 THEN FALSE
    ELSE IF a[i] # b[i] THEN a[i] < b[i]
    ELSE LimbsLess(a, b, i - 1)

\* a <= b for two non-negative numbers given by their limbs.
MagnitudeLeq(a, b) ==
    IF Len(a) # Len(b) THEN Len(a) < Len(b) ELSE ~LimbsLess(b, a, Len(a))

\* num <= bound.
BigLeq(num, bound) ==
    IF num.neg THEN TRUE ELSE MagnitudeLeq(num.limbs, bound)

\* num.to_bytes(width, 'little') for 0 <= num < 256^width.
to_bytes_little(num, width) ==
    [j \in 1..width |->
        LET limb == IF (j + 1) \div 2 <= Len(num.limbs) THEN num.limbs[(j + 1) \div 2] ELSE 0
        IN  IF j % 2 = 1 THEN limb % 256 ELSE limb \div 256]

\* unsigned_to_varint whose one-byte form reaches up to 0xfd.
unsigned_to_varint_fd_one_byte(num) ==
    IF num.neg \/ ~BigLeq(num, <<65535, 65535, 65535, 65535>>)
    THEN Raise("OverflowError", "can't convert to varint")
    ELSE IF BigLeq(num, <<253>>) THEN Return(to_bytes_little(num, 1))
    ELSE IF BigLeq(num, <<65535>>) THEN Return(<<253>> \o to_bytes_little(num, 2))
    ELSE IF BigLeq(num, <<65535, 65535>>) THEN Return(<<254>> \o to_bytes_little(num, 4))
    ELSE Return(<<255>> \o to_bytes_little(num, 8))

\* unsigned_to_varint(num): Bitcoin's CompactSize.
unsigned_to_varint(num) ==
    IF num.neg \/ ~BigLeq(num, <<65535, 65535, 65535, 65535>>)
    THEN Raise("OverflowError", "can't convert to varint")
    ELSE IF BigLeq(num, <<252>>) THEN Return(to_bytes_little(num, 1))
    ELSE IF BigLeq(num, <<65535>>) THEN Return(<<253>> \o to_bytes_little(num, 2))
    ELSE IF BigLeq(num, <<65535, 65535>>) THEN Return(<<254>> \o to_bytes_little(num, 4))
    ELSE Return(<<255>> \o to_bytes_little(num, 8))

RECURSIVE unsigned_to_bytes(_)
\* unsigned_to_bytes(num, 'big'): the shortest big-endian form, one byte for 0.
unsigned_to_bytes(num) ==
    IF num < 256 THEN <<num>> ELSE Append(unsigned_to_bytes(num \div 256), num % 256)

\* A DER INTEGER: tag 0x02, length, and the number with a 0x00 in front when its
\* top bit is set.
der_integer(num) ==
    LET b == unsigned_to_bytes(num)
        v == IF b[1] >= 128 THEN <<0>> \o b ELSE b
    IN  <<2, Len(v)>> \o v

\* The s that is encoded: n - s when s is above n / 2.
low_s(s) == IF s > curve_n \div 2 THEN curve_n - s ELSE s

\* serialize_ecdsa_der that encodes s as given.
serialize_ecdsa_der_raw_s(r, s) ==
    LET body == der_integer(r) \o der_integer(s)
    IN  <<48, Len(body)>> \o body

\* serialize_ecdsa_der((r, s)): SEQUENCE of the INTEGERs r and low s.
serialize_ecdsa_der(r, s) ==
    LET body == der_integer(r) \o der_integer(low_s(s))
    IN  <<48, Len(body)>> \o body

RECURSIVE bytes_to_unsigned(_, _, _)
\* int.from_bytes(b, 'big').
bytes_to_unsigned(b, i, acc) ==
    IF i > Len(b) THEN acc ELSE bytes_to_unsigned(b, i + 1, acc * 256 + b[i])

\* deserialize_ecdsa_der(signature): <<r, s>>, or ValueError on any byte string
\* that is not SEQUENCE { INTEGER, INTEGER } with exact lengths.
deserialize_ecdsa_der(sig) ==
    LET ok ==
            /\ Len(sig) >= 8
            /\ sig[1] = 48
            /\ sig[2] = Len(sig) - 2
            /\ sig[3] = 2
            /\ sig[4] >= 1
            /\ 4 + sig[4] + 2 < Len(sig)
            /\ sig[5 + sig[4]] = 2
            /\ sig[6 + sig[4]] >= 1
            /\ 6 + sig[4] + sig[6 + sig[4]] = Len(sig)
    IN  IF ~ok THEN Raise("ValueError", "invalid DER encoded")
        ELSE LET r_len == sig[4]
                 s_len == sig[6 + r_len]
             IN  Return(<<bytes_to_unsigned(SubSeq(sig, 5, 4 + r_len), 1, 0),
                          bytes_to_unsigned(SubSeq(sig, 7 + r_len, 6 + r_len + s_len), 1, 0)>>)

\* ------------------------------------------------------------ the inputs

\* The longest message that is encrypted.
MaxMsgLen == 2

\* The message of length len.
MessageOf(len) == [i \in 1..len |-> (104 + 151 * (i - 1)) % 256]

Messages == {MessageOf(len) : len \in 0..MaxMsgLen}

\* The private keys of the parties.
PrivKeys == {83, 166}

\* randbytes(32): the 32-byte string whose last byte is v.
Bytes32(v) == [i \in 1..32 |-> IF i = 32 THEN v ELSE (11 * i) % 256]

\* The key IDs and IVs that encrypt draws.
KeyIds == {Bytes32(v) : v \in {0, 100}}

IVs == {Bytes32(v) : v \in {5, 77}}

\* What is added to a byte to change it.
FlipDeltas == {1}

\* The numbers handed to unsigned_to_varint: every number of up to MaxLimbs
\* limbs taken from the boundary values, the numbers of the tests, and -1.
MaxLimbs == 5

LimbValues == {0, 1, 252, 253, 65535}

RECURSIVE LimbStrings(_)
LimbStrings(k) ==
    IF k = 0 THEN {<<>>}
    ELSE LET shorter == LimbStrings(k - 1)
         IN  shorter \cup {Append(t, v) : t \in {u \in shorter : Len(u) = k - 1},
                                           v \in LimbValues}

VarintInputs ==
    {Big(FALSE, t) : t \in {u \in LimbStrings(MaxLimbs) : Len(u) = 0 \/ u[Len(u)] # 0}}
        \cup {Big(FALSE, <<43981>>), Big(FALSE, <<22136, 4660>>),
              Big(FALSE, <<52719, 37035, 22136, 4660>>),
              Big(TRUE, <<1>>), Big(TRUE, <<0, 1>>)}

\* The r of the signatures that are serialized; s is any scalar.
DerRs == {1, 127, 128, 2 * HalfOrder}

VARIABLES
    pc,         \* "idle", "encrypted", "decrypted", "varint", "der", "der_read"
    message,    \* the plaintext handed to encrypt
    sender,     \* the sender's private key
    recipient,  \* the private key of the recipient whose public key encrypt got
    key_id,     \* encrypt's first draw of randbytes(32)
    iv,         \* encrypt's second draw of randbytes(32)
    envelope,   \* the outcome of encrypt
    wire,       \* the bytes handed to decrypt
    reader,     \* the private key handed to decrypt
    result,     \* the outcome of decrypt
    num,        \* the number handed to unsigned_to_varint
    varint,     \* the outcome of unsigned_to_varint
    sig,        \* the signature <<r, s>> handed to serialize_ecdsa_der
    der,        \* the bytes serialize_ecdsa_der returned
    sig_read    \* the outcome of deserialize_ecdsa_der

msg_vars == <<message, sender, recipient, key_id, iv, envelope, wire, reader, result>>

codec_vars == <<num, varint, sig, der, sig_read>>

vars == <<pc, msg_vars, codec_vars>>

Init ==
    /\ pc = "idle"
    /\ message = <<>>
    /\ sender = 0
    /\ recipient = 0
    /\ key_id = <<>>
    /\ iv = <<>>
    /\ envelope = Return(<<>>)
    /\ wire = <<>>
    /\ reader = 0
    /\ result = Return(<<>>)
    /\ num = Big(FALSE, <<>>)
    /\ varint = Return(<<>>)
    /\ sig = <<0, 0>>
    /\ der = <<>>
    /\ sig_read = Return(<<>>)

\* encrypt(m, a, public key of b), drawing key ID k and IV v.
Encrypt(m, a, b, k, v) ==
    /\ pc = "idle"
    /\ pc' = "encrypted"
    /\ message' = m
    /\ sender' = a
    /\ recipient' = b
    /\ key_id' = k
    /\ iv' = v
    /\ envelope' = encrypt(m, a, public_key(b), k, v)
    /\ UNCHANGED <<wire, reader, result, codec_vars>>

\* decrypt(w, c).
Decrypt(w, c) ==
    /\ pc = "encrypted"
    /\ pc' = "decrypted"
    /\ wire' = w
    /\ reader' = c
    /\ result' = decrypt(w, c)
    /\ UNCHANGED <<message, sender, recipient, key_id, iv, envelope, codec_vars>>

\* unsigned_to_varint(n).
UnsignedToVarint(n) ==
    /\ pc = "idle"
    /\ pc' = "varint"
    /\ num' = n
    /\ varint' = unsigned_to_varint(n)
    /\ UNCHANGED <<msg_vars, sig, der, sig_read>>

\* serialize_ecdsa_der((r, s)).
SerializeDer(r, s) ==
    /\ pc = "idle"
    /\ pc' = "der"
    /\ sig' = <<r, s>>
    /\ der' = serialize_ecdsa_der(r, s)
    /\ UNCHANGED <<msg_vars, num, varint, sig_read>>

\* deserialize_ecdsa_der of the bytes just serialized.
DeserializeDer ==
    /\ pc = "der"
    /\ pc' = "der_read"
    /\ sig_read' = deserialize_ecdsa_der(der)
    /\ UNCHANGED <<msg_vars, num, varint, sig, der>>

\* Every strict prefix of e.
Truncations(e) == {SubSeq(e, 1, k) : k \in 0..(Len(e) - 1)}

\* e with one byte changed.
ByteFlips(e) == {[e EXCEPT ![i] = (@ + d) % 256] : i \in 1..Len(e), d \in FlipDeltas}

\* e with its key ID field replaced by another 32-byte value: more values
\* than there are symmetric keys.
KeyIdReplacements(e) ==
    {SubSeq(e, 1, 70) \o Bytes32(v) \o SubSeq(e, 103, Len(e)) : v \in 0..(HalfOrder + 2)} \ {e}

\* The sender fields an envelope is given instead of its own: other valid
\* keys, and byte strings that are no public key.
SenderFields ==
    {serialize(P) : P \in {public_key(k) : k \in PrivKeys}
                        \cup {curve_n - public_key(k) : k \in PrivKeys} \cup {1, 2}}
        \cup {<<4>> \o Zeros(31) \o <<1>>, <<2>> \o Zeros(31) \o <<0>>,
              <<2>> \o Zeros(31) \o <<200>>}

SenderReplacements(e) ==
    {SubSeq(e, 1, 4) \o f \o SubSeq(e, 38, Len(e)) : f \in SenderFields} \ {e}

\* A 149-byte input made by a sender who knows the symmetric key: the header
\* of e, an IV whose last byte is the first byte of the tag of the empty
\* message under that IV, and the other 15 bytes of the tag.
Overlaps(e, a, b) ==
    LET key == symmetric_key_sender(a, public_key(b),
                                    invoice_number_of(SubSeq(e, 71, 102)))
    IN  IF ~key.ok THEN {}
        ELSE {SubSeq(e, 1, 102) \o Bytes32(v) \o Tail(gcm_tag(key.value, Bytes32(v), <<>>)) :
                v \in {u \in 0..255 : gcm_tag(key.value, Bytes32(u), <<>>)[1] = u}}

\* The envelope encrypt returned is on the wire, to be read or tampered with.
Sent == pc = "encrypted" /\ envelope.ok

\* Nothing has been called yet.
Idle == pc = "idle"

Next ==
    \/ Idle /\ \E m \in Messages, a \in PrivKeys, b \in PrivKeys, k \in KeyIds, v \in IVs :
           Encrypt(m, a, b, k, v)
    \/ Sent /\ \E c \in PrivKeys : Decrypt(envelope.value, c)
    \/ Sent /\ \E c \in PrivKeys : \E w \in Truncations(envelope.value) : Decrypt(w, c)
    \/ Sent /\ \E c \in PrivKeys : \E w \in ByteFlips(envelope.value) : Decrypt(w, c)
    \/ Sent /\ \E c \in PrivKeys : \E w \in KeyIdReplacements(envelope.value) : Decrypt(w, c)
    \/ Sent /\ \E c \in PrivKeys : \E w \in SenderReplacements(envelope.value) : Decrypt(w, c)
    \/ Sent /\ \E c \in PrivKeys : \E w \in Overlaps(envelope.value, sender, recipient) :
           Decrypt(w, c)
    \/ Idle /\ \E n \in VarintInputs : UnsignedToVarint(n)
    \/ Idle /\ \E r \in DerRs, s \in 1..(curve_n - 1) : SerializeDer(r, s)
    \/ DeserializeDer

Spec == Init /\ [][Next]_vars

\* ---------------------------------------------------------------- claims

\* decrypt has returned or raised.
Read == pc = "decrypted"

\* The positions in which w differs from e, for w and e of one length.
DiffPositions(w, e) == {i \in 1..Len(e) : w[i] # e[i]}

\* The intended recipient reads the envelope as encrypt returned it.
RoundTripCase == Read /\ wire = envelope.value /\ reader = recipient

\* C1: decrypt(encrypt(m, A, B_pub), B_priv) returns exactly m, and the
\* symmetric key the recipient derives from the envelope's sender field, its
\* own private key and the key ID is the 32-byte key the sender derived.
C1_RoundTrip ==
    RoundTripCase =>
        /\ result.ok
        /\ result.value = message
        /\ LET inv  == invoice_number_of(key_id)
               from == PublicKey(SubSeq(envelope.value, 5, 37))
               ks   == symmetric_key_sender(sender, public_key(recipient), inv)
               kr   == symmetric_key_recipient(from.value, recipient, inv)
           IN  from.ok /\ ks.ok /\ kr.ok /\ ks.value = kr.value /\ Len(ks.value) = 32

C1_Witness ==
    RoundTripCase /\ Len(message) > 0 /\ sender # recipient /\ result.value = message

\* C2: an envelope that encrypt returned is version 0x42421033, the sender's
\* and the recipient's 33-byte compressed keys, the 32-byte key ID, the
\* 32-byte IV, a ciphertext as long as the message and the 16-byte tag:
\* 150 + len(message) bytes, which decrypt slices at 0, 4, 37, 70 and 102.
C2_Layout ==
    (pc = "encrypted" /\ envelope.ok) =>
        LET e   == envelope.value
            ct  == SubSeq(e, 135, Len(e) - 16)
            tag == SubSeq(e, Len(e) - 15, Len(e))
            key == symmetric_key_sender(sender, public_key(recipient),
                                        invoice_number_of(key_id))
        IN  /\ Len(e) = 150 + Len(message)
            /\ bytes_to_unsigned(SubSeq(e, 1, 4), 1, 0) = 1111625779
            /\ SubSeq(e, 5, 37) = serialize(public_key(sender))
            /\ SubSeq(e, 38, 70) = serialize(public_key(recipient))
            /\ SubSeq(e, 71, 102) = key_id
            /\ SubSeq(e, 103, 134) = iv
            /\ Len(ct) = Len(message)
            /\ Len(tag) = 16
            /\ key.ok /\ <<ct, tag>> = encrypt_and_digest(key.value, iv, message)
            /\ PySlice(e, 0, 4) = SubSeq(e, 1, 4)
            /\ PySlice(e, 4, 37) = SubSeq(e, 5, 37)
            /\ PySlice(e, 37, 70) = SubSeq(e, 38, 70)
            /\ PySlice(e, 70, 102) = key_id
            /\ PySlice(PyFrom(e, 102), 0, 32) = iv
            /\ PySliceToNeg(PyFrom(e, 102), 32, 16) = ct
            /\ PyLast(PyFrom(e, 102), 16) = tag

C2_Witness == pc = "encrypted" /\ envelope.ok /\ Len(message) = 2 /\ sender # recipient

\* The envelope's version field is not the expected constant.
VersionDiffers == Read /\ PySlice(wire, 0, 4) # <<66, 66, 16, 51>>

\* C3 as claimed: a wrong version fails with a failure kind that is distinct
\* from those of the recipient mismatch and of the AEAD failure.
C3_DistinctKind ==
    VersionDiffers =>
        LET other    == CHOOSE c \in PrivKeys : c # recipient
            mismatch == decrypt(envelope.value, other)
            forged   == decrypt([envelope.value EXCEPT ![Len(envelope.value)] = (@ + 1) % 256],
                                recipient)
            kinds(r) == <<r.exc.kind, r.exc.cause_kind>>
        IN  /\ ~result.ok
            /\ kinds(result) \notin {kinds(mismatch), kinds(forged)}

\* C3, amended: a wrong version fails, whatever the rest of the envelope and
\* the recipient key, with the one failure every decrypt failure is reported
\* as, whose cause is the version mismatch.
C3_VersionMismatch ==
    VersionDiffers =>
        /\ ~result.ok
        /\ result.value = <<>>
        /\ result.exc = Exc("ValueError", "failed to decrypt message",
                            "ValueError", "message version mismatch")

C3_Witness ==
    /\ VersionDiffers
    /\ Len(wire) = Len(envelope.value)
    /\ DiffPositions(wire, envelope.value) \subseteq 1..4
    /\ reader = recipient
    /\ ~result.ok

\* The version is right and the recipient field is not the reader's key.
RecipientDiffers ==
    /\ Read
    /\ PySlice(wire, 0, 4) = <<66, 66, 16, 51>>
    /\ PySlice(wire, 37, 70) # serialize(public_key(reader))

\* C4: with a correct version and a private key whose public key is not the
\* one at bytes 37..70, decrypt fails because of the recipient mismatch and
\* returns no plaintext.
C4_RecipientMismatch ==
    RecipientDiffers =>
        /\ ~result.ok
        /\ result.value = <<>>
        /\ result.exc.cause_kind = "ValueError"
        /\ result.exc.cause_text = "recipient public key mismatch"

C4_Witness ==
    RecipientDiffers /\ wire = envelope.value /\ reader # recipient /\ ~result.ok

\* What the try block of decrypt raises.
Causes ==
    {<<"ValueError", "message version mismatch">>,
     <<"ValueError", "recipient public key mismatch">>,
     <<"ValueError", "invalid public key">>,
     <<"ValueError", "invalid point">>,
     <<"DerivationError", "zero child key">>,
     <<"ValueError", "Nonce cannot be empty">>,
     <<"ValueError", "MAC check failed">>}

\* C5: every failure of decrypt is the same kind of failure, carries its
\* cause and no plaintext; a key other than the recipient's fails.
C5_OneFailureKind ==
    Read =>
        /\ ~result.ok =>
              /\ result.exc.kind = "ValueError"
              /\ result.exc.text = "failed to decrypt message"
              /\ <<result.exc.cause_kind, result.exc.cause_text>> \in Causes
              /\ result.value = <<>>
        /\ result.ok => result.exc = NoExc
        /\ (reader # recipient /\ PySlice(wire, 37, 70) = serialize(public_key(recipient)))
              => ~result.ok

C5_Witness ==
    Read /\ ~result.ok /\ result.exc.cause_kind = "DerivationError" /\ reader = recipient

\* One byte of the IV, the ciphertext or the tag is changed and the intended
\* recipient reads.
EncryptedPartFlipped ==
    /\ Read
    /\ reader = recipient
    /\ Len(wire) = Len(envelope.value)
    /\ Cardinality(DiffPositions(wire, envelope.value)) = 1
    /\ DiffPositions(wire, envelope.value) \subseteq 103..Len(wire)

\* C6: a changed byte of IV, ciphertext or tag makes decrypt fail at the tag
\* check, with no plaintext.
C6_TagCheck ==
    EncryptedPartFlipped =>
        /\ ~result.ok
        /\ result.value = <<>>
        /\ result.exc = Exc("ValueError", "failed to decrypt message",
                            "ValueError", "MAC check failed")

C6_Witness ==
    /\ EncryptedPartFlipped
    /\ Len(message) > 0
    /\ DiffPositions(wire, envelope.value) \subseteq 135..(Len(wire) - 16)
    /\ ~result.ok

\* C7: decrypt fails on every input shorter than the 150 bytes of the
\* shortest envelope.
C7_RejectsTruncated ==
    (Read /\ Len(wire) < 150) => (~result.ok /\ result.value = <<>>)

\* The limb k (from 1) of the little-endian bytes b that follow a prefix byte.
LimbOf(b, k) == b[2 * k] + 256 * b[2 * k + 1]

\* C8: unsigned_to_varint is CompactSize: one byte below 0xfd, then 0xfd,
\* 0xfe, 0xff followed by 2, 4, 8 little-endian bytes; no bytes but an
\* overflow error below 0 and from 2^64 on.
C8_CompactSize ==
    pc = "varint" =>
        LET limbs == num.limbs
            out   == varint.value
            limb(k) == IF k <= Len(limbs) THEN limbs[k] ELSE 0
        IN  /\ IF num.neg \/ Len(limbs) > 4
               THEN ~varint.ok /\ out = <<>> /\ varint.exc.kind = "OverflowError"
               ELSE /\ varint.ok
                    /\ CASE Len(limbs) = 0 -> out = <<0>>
                         [] Len(limbs) = 1 /\ limbs[1] < 253 -> out = <<limbs[1]>>
                         [] Len(limbs) = 1 /\ limbs[1] >= 253 ->
                                Len(out) = 3 /\ out[1] = 253 /\ LimbOf(out, 1) = limbs[1]
                         [] Len(limbs) = 2 ->
                                /\ Len(out) = 5 /\ out[1] = 254
                                /\ \A k \in 1..2 : LimbOf(out, k) = limbs[k]
                         [] OTHER ->
                                /\ Len(out) = 9 /\ out[1] = 255
                                /\ \A k \in 1..4 : LimbOf(out, k) = limb(k)
                    /\ \A i \in 1..Len(out) : out[i] \in 0..255
            /\ num = Big(FALSE, <<253>>) => out = <<253, 253, 0>>
            /\ num = Big(FALSE, <<43981>>) => out = <<253, 205, 171>>
            /\ num = Big(FALSE, <<22136, 4660>>) => out = <<254, 120, 86, 52, 18>>
            /\ num = Big(FALSE, <<52719, 37035, 22136, 4660>>)
                   => out = <<255, 239, 205, 171, 144, 120, 86, 52, 18>>

C8_Witness ==
    /\ pc = "varint"
    /\ num = Big(FALSE, <<52719, 37035, 22136, 4660>>)
    /\ varint.ok /\ Len(varint.value) = 9

\* C9: (r, s) and (r, n - s) serialize to the same bytes, the encoded s is
\* the one that is not above n / 2, and deserializing gives r and that s.
C9_LowS ==
    /\ pc \in {"der", "der_read"} =>
          der = serialize_ecdsa_der(sig[1], curve_n - sig[2])
    /\ pc = "der_read" =>
          /\ sig_read.ok
          /\ sig_read.value[1] = sig[1]
          /\ sig_read.value[2] \in {sig[2], curve_n - sig[2]}
          /\ 2 * sig_read.value[2] <= curve_n

C9_Witness ==
    /\ pc = "der_read"
    /\ sig[1] >= 128
    /\ 2 * sig[2] > curve_n
    /\ sig_read.ok /\ sig_read.value = <<sig[1], curve_n - sig[2]>>

\* The intended recipient reads an envelope whose key ID field or sender
\* field, and nothing else, was replaced.
HeaderReplaced ==
    /\ Read
    /\ reader = recipient
    /\ Len(wire) = Len(envelope.value)
    /\ wire # envelope.value
    /\ \/ DiffPositions(wire, envelope.value) \subseteq 71..102
       \/ DiffPositions(wire, envelope.value) \subseteq 5..37

====
